---------------------------- MODULE Spec2Model ----------------------------
(***************************************************************************)
(* Model of the device communication core of pyqt_light_controller.py:     *)
(* LightControlThread (connect_to_esp32, disconnect, send_command, run,    *)
(* parse_status_response) together with the three slots of                 *)
(* ResponsiveMainWindow that consume its signals.                          *)
(*                                                                         *)
(* Two threads of control: the caller (GUI) thread, which runs             *)
(* connect_to_esp32 / disconnect / send_command and the slots, and the     *)
(* QThread worker, which executes run().  A signal emitted on the caller   *)
(* thread reaches its slot by a direct call; a signal emitted by run() is  *)
(* queued and the slot runs when the GUI thread is back in its event loop. *)
(*                                                                         *)
(* Text is a sequence of one-character strings.                            *)
(***************************************************************************)
EXTENDS Naturals, Sequences, FiniteSets

\* ------------------------------------------------------------------ bounds
\* calls the caller thread makes (connect_to_esp32, disconnect, send_command)
MaxOps == 3
\* non-empty chunks the worker's recv returns
MaxRecv == 1
\* lines in one received chunk, where the chunks are enumerated
MaxLines == 2

\* -------------------------------------------------------------------- text
NL == "\n"

Whitespace == {" ", NL, "\t", "\r"}

RECURSIVE LStrip(_)
LStrip(s) ==
    IF s = <<>> THEN <<>>
    ELSE IF Head(s) \in Whitespace THEN LStrip(Tail(s)) ELSE s

RECURSIVE RStrip(_)
RStrip(s) ==
    IF s = <<>> THEN <<>>
    ELSE IF s[Len(s)] \in Whitespace THEN RStrip(SubSeq(s, 1, Len(s) - 1)) ELSE s

\* str.strip()
Strip(s) == RStrip(LStrip(s))

\* sub in s
Contains(s, sub) ==
    \E i \in 1..(Len(s) + 1) :
        /\ i + Len(sub) - 1 <= Len(s)
        /\ SubSeq(s, i, i + Len(sub) - 1) = sub

\* index of the first occurrence of character c in s, 0 when absent
RECURSIVE IndexFrom(_, _, _)
IndexFrom(s, c, i) ==
    IF i > Len(s) THEN 0
    ELSE IF s[i] = c THEN i ELSE IndexFrom(s, c, i + 1)

\* str.split(c) for a one-character separator: always at least one piece
RECURSIVE Split(_, _)
Split(s, c) ==
    LET i == IndexFrom(s, c, 1) IN
    IF i = 0 THEN <<s>>
    ELSE <<SubSeq(s, 1, i - 1)>> \o Split(SubSeq(s, i + 1, Len(s)), c)

TokOn == <<"O", "N">>
TokOff == <<"O", "F", "F">>

\* ParseLine without the strip() of line 144: the name keeps the blank
\* that precedes the '('
ParseLine_NameUntrimmed(line) ==
    IF Contains(line, <<":">>) /\ (Contains(line, TokOn) \/ Contains(line, TokOff))
    THEN LET parts == Split(line, ":") IN
         IF Len(parts) >= 2
         THEN LET light_info == Strip(parts[1])
                  status == Strip(parts[2])
                  light_name == IF Contains(light_info, <<"(">>)
                                THEN Split(light_info, "(")[1]
                                ELSE light_info
                  isOn == Contains(status, TokOn)
              IN <<[light |-> light_name, isOn |-> isOn]>>
         ELSE <<>>
    ELSE <<>>

\* the body of the for loop of parse_status_response for one line: the
\* sequence (empty or one element) of status_updated arguments it emits
ParseLine(line) ==
    IF Contains(line, <<":">>) /\ (Contains(line, TokOn) \/ Contains(line, TokOff))
    THEN LET parts == Split(line, ":") IN
         IF Len(parts) >= 2
         THEN LET light_info == Strip(parts[1])
                  status == Strip(parts[2])
                  light_name == IF Contains(light_info, <<"(">>)
                                THEN Strip(Split(light_info, "(")[1])
                                ELSE light_info
                  isOn == Contains(status, TokOn)
              IN <<[light |-> light_name, isOn |-> isOn]>>
         ELSE <<>>
    ELSE <<>>

RECURSIVE ParseLines(_)
ParseLines(lines) ==
    IF lines = <<>> THEN <<>>
    ELSE ParseLine(Head(lines)) \o ParseLines(Tail(lines))

\* parse_status_response(data): the status_updated emissions, in order
parse_status_response(data) == ParseLines(Split(Strip(data), NL))

\* ------------------------------------------------------------ input sets
\* lights_config: the ids the window has a widget for
builtin == <<"b", "u", "i", "l", "t", "i", "n">>
light1 == <<"l", "i", "g", "h", "t", "1">>
light2 == <<"l", "i", "g", "h", "t", "2">>
light3 == <<"l", "i", "g", "h", "t", "3">>
light4 == <<"l", "i", "g", "h", "t", "4">>
lights_config == {builtin, light1, light2, light3, light4}

\* (host, port) pairs handed to connect_to_esp32: a host and a port that
\* differ from the values __init__ leaves in self.host and self.port
Endpoints == {<<"esp-a", 8081>>}

\* welcome chunks: a banner, or the empty read of a peer that closed at once
Welcomes == {<<"E", "S", "P">>, <<>>}

\* chunks the device sends while connected:  "light1: ON\n"  and
\* "builtin (L): OFF\nlog\nfan: ON\n", whose last line names a light that
\* lights_config does not have
Chunks ==
    { light1 \o <<":", " ", "O", "N", NL>>,
      builtin \o <<" ", "(", "L", ")", ":", " ", "O", "F", "F", NL, "l", "o", "g", NL,
                   "f", "a", "n", ":", " ", "O", "N", NL>> }

\* the actions of the three buttons of a light widget (lines 214-216)
widget_actions ==
    { <<"O", "N">>, <<"O", "F", "F">>, <<"T", "O", "G", "G", "L", "E">> }

\* widget_command without the separating space
widget_command_NoSpace(action, light_name) == action \o light_name

\* ResponsiveLightWidget.send_command: f"{action} {self.light_name}"
widget_command(action, light_name) == action \o <<" ">> \o light_name

\* the lines of the "All ON" and "All OFF" buttons and of refresh_status
global_commands ==
    { <<"A", "L", "L", "_", "O", "N">>, <<"A", "L", "L", "_", "O", "F", "F">> }
refresh_command == <<"S", "T", "A", "T", "U", "S">>

\* every command line the window hands to LightControlThread.send_command
WindowCommands ==
    {widget_command(a, l) : a \in widget_actions, l \in lights_config}
        \cup global_commands \cup {refresh_command}

\* Text the device can send, line by line.  The field before the ':':
\* "light1", "builtin (LED)", " light2 ", "CONFIG", "log"
StatusNames ==
    { light1,
      builtin \o <<" ", "(", "L", "E", "D", ")">>,
      <<" ">> \o light2 \o <<" ">>,
      <<"C", "O", "N", "F", "I", "G">>,
      <<"l", "o", "g">> }

\* the text after the ':':  " ON", "OFF ", " ONLINE", " loaded"
StatusValues ==
    { <<" ", "O", "N">>,
      <<"O", "F", "F", " ">>,
      <<" ", "O", "N", "L", "I", "N", "E">>,
      <<" ", "l", "o", "a", "d", "e", "d">> }

\* lines: every name with every value, a line with two ':' ("t:1: ON"),
\* and a line with none ("ready")
DeviceLines ==
    {n \o <<":">> \o v : n \in StatusNames, v \in StatusValues}
        \cup { <<"t", ":", "1", ":", " ", "O", "N">>,
               <<"r", "e", "a", "d", "y">> }

\* the lines of ls joined by newlines
RECURSIVE JoinLines(_)
JoinLines(ls) ==
    IF Len(ls) = 1 THEN ls[1]
    ELSE ls[1] \o <<NL>> \o JoinLines(Tail(ls))

\* what one recv can return: up to MaxLines lines, the last one with or
\* without its terminator (a read can end anywhere in the stream)
DeviceChunks ==
    {JoinLines(ls) \o t :
        ls \in UNION {[1..n -> DeviceLines] : n \in 1..MaxLines},
        t \in {<<>>, <<NL>>}}

\* parse_status_response on each chunk of Chunks, evaluated once: the
\* pairs <<chunk, emissions>>
ChunkStatus == {<<c, parse_status_response(c)>> : c \in Chunks}

\* command lines handed to send_command:  "STATUS"  and  "ON light1"
Commands ==
    { <<"S", "T", "A", "T", "U", "S">>,
      <<"O", "N", " ">> \o light1 }

\* ------------------------------------------------------------------ state
VARIABLES
    sock,         \* the socket object self.socket refers to: "none" is None,
                  \* otherwise its condition: "fresh" (created), "conn"
                  \* (connected), "peerclosed" (the peer has closed), "closed"
    connected,    \* self.connected
    running,      \* self.running
    host,         \* self.host
    port,         \* self.port
    cpc,          \* caller thread: "idle", or where connect_to_esp32 blocks
    wpc,          \* worker thread: position in run(), "off" when not running
    wsock,        \* the socket object the worker's recv blocks on: "none"
                  \* outside recv, "self" when it is the object self.socket
                  \* still refers to, else the condition of that older object
    wdata,        \* local data of run()
    wres,         \* how the worker's latest recv ended: "none" while one is
                  \* under way, "data", "eof", "timeout" or "error"
    cargs,        \* (host, port) arguments of the connect_to_esp32 call
                  \* under way, <<>> when there is none
    emitted,      \* the signal emissions made by the latest step, in order
    wire,         \* the bytes written to the socket by the latest step
    rx,           \* the bytes read from the socket by the latest step
    pending,      \* emissions of the worker queued for the GUI thread
    uiConnected,  \* what on_connection_changed last displayed
    is_on,        \* ResponsiveLightWidget.is_on for each light widget
    lastCall,     \* the caller's most recent completed call and its outcome
    nOps,         \* calls made so far by the caller
    nRecv,        \* non-empty chunks received so far by the worker
    drops,        \* times self.connected went from True to False since
                  \* connect_to_esp32 last set it
    dropNotes     \* connection_changed(False) emissions made since then by
                  \* disconnect, send_command and run

vars == <<sock, connected, running, host, port, cpc, wpc, wsock, wdata, wres,
          cargs, emitted, wire, rx, pending, uiConnected, is_on, lastCall, nOps,
          nRecv, drops, dropNotes>>

flagVars == <<connected, running>>
addrVars == <<host, port>>
workerVars == <<wpc, wsock, wdata, wres>>
uiVars == <<uiConnected, is_on>>
countVars == <<nOps, nRecv>>

\* ------------------------------------------------------------ emissions
\* one emission: the signal, the code that emitted it, and its arguments
CC(src, flag) ==
    [sig |-> "connection_changed", src |-> src, flag |-> flag,
     kind |-> "", text |-> <<>>]
Msg(src, kind, text) ==
    [sig |-> "message_received", src |-> src, flag |-> FALSE,
     kind |-> kind, text |-> text]
SU(src, light_name, on) ==
    [sig |-> "status_updated", src |-> src, flag |-> on,
     kind |-> "", text |-> light_name]

\* the slots of ResponsiveMainWindow, as functions of the displayed state
on_connection_changed(ui, n) == [ui EXCEPT !.conn = n.flag]
on_message_received(ui, n) == ui
\* on_status_updated without the test of line 779: the named light gets an
\* entry whether or not the window has a widget for it
on_status_updated_AnyName(ui, n) ==
    [ui EXCEPT !.lights = [l \in (DOMAIN @) \cup {n.text} |->
                              IF l = n.text THEN n.flag ELSE @[l]]]

on_status_updated(ui, n) ==
    IF n.text \in lights_config
    THEN [ui EXCEPT !.lights = [@ EXCEPT ![n.text] = n.flag]]
    ELSE ui

Slot(ui, n) ==
    IF n.sig = "connection_changed" THEN on_connection_changed(ui, n)
    ELSE IF n.sig = "status_updated" THEN on_status_updated(ui, n)
    ELSE on_message_received(ui, n)

RECURSIVE SlotAll(_, _)
SlotAll(ui, ns) ==
    IF ns = <<>> THEN ui ELSE SlotAll(Slot(ui, Head(ns)), Tail(ns))

\* the connection_changed(False) emissions of ns made outside connect
DropNotes(ns) ==
    Cardinality({i \in 1..Len(ns) :
        ns[i].sig = "connection_changed" /\ ~ns[i].flag /\ ns[i].src # "connect"})

\* emissions made on the caller thread: the slots are called directly
EmitDirect(ns) ==
    LET ui == SlotAll([conn |-> uiConnected, lights |-> is_on], ns) IN
    /\ emitted' = ns
    /\ dropNotes' = dropNotes + DropNotes(ns)
    /\ uiConnected' = ui.conn
    /\ is_on' = ui.lights
    /\ UNCHANGED pending

\* emissions made by run(): queued for the GUI thread
EmitQueued(ns) ==
    /\ emitted' = ns
    /\ dropNotes' = dropNotes + DropNotes(ns)
    /\ pending' = pending \o ns
    /\ UNCHANGED uiVars

\* a step that emits nothing
EmitNothing ==
    /\ emitted' = <<>>
    /\ UNCHANGED <<dropNotes, pending, uiVars>>

\* ------------------------------------------------------------------- Init
Init ==
    /\ sock = "none"
    /\ connected = FALSE
    /\ running = FALSE
    /\ host = ""
    /\ port = 8080
    /\ cpc = "idle"
    /\ wpc = "off"
    /\ wsock = "none"
    /\ wdata = <<>>
    /\ wres = "none"
    /\ cargs = <<>>
    /\ emitted = <<>>
    /\ wire = <<>>
    /\ rx = <<>>
    /\ pending = <<>>
    /\ uiConnected = FALSE
    /\ is_on = [l \in lights_config |-> FALSE]
    /\ lastCall = [op |-> "none", ret |-> FALSE, io |-> "none", prev |-> <<"none", FALSE>>]
    /\ nOps = 0
    /\ nRecv = 0
    /\ drops = 0
    /\ dropNotes = 0

\* ----------------------------------------------------- the caller thread
\* the record of a call that has returned; prev is the call before it
Called(op, ret, io) ==
    [op |-> op, ret |-> ret, io |-> io, prev |-> <<lastCall.op, lastCall.ret>>]

\* the except block of connect_to_esp32 (lines 84-87): it reports the
\* failure and returns False; it assigns neither connected nor running
ConnectExcept(stage) ==
    /\ EmitDirect(<<Msg("connect", "Connection failed", <<>>), CC("connect", FALSE)>>)
    /\ lastCall' = Called("connect", FALSE, stage)
    /\ cargs' = <<>>
    /\ cpc' = "idle"

\* the worker's view when self.socket is rebound to a new object while its
\* recv is blocked on the old one
Rebound(w) == IF w = "self" THEN sock ELSE w

\* connect_to_esp32, lines 66-70: record host and port, create the socket.
\* The window calls it only when self.connected is False (toggle_connection).
\* ok = FALSE: socket.socket() raises.
connect_to_esp32_socket(ep, ok) ==
    /\ cpc = "idle"
    /\ ~connected
    /\ nOps < MaxOps
    /\ nOps' = nOps + 1
    /\ host' = ep[1]
    /\ port' = ep[2]
    /\ IF ok
       THEN /\ sock' = "fresh"
            /\ wsock' = Rebound(wsock)
            /\ cpc' = "connecting"
            /\ cargs' = ep
            /\ EmitNothing
            /\ UNCHANGED lastCall
       ELSE /\ ConnectExcept("socket")
            /\ UNCHANGED <<sock, wsock>>
    /\ wire' = <<>>
    /\ rx' = <<>>
    /\ UNCHANGED <<flagVars, wpc, wdata, wres, nRecv, drops>>

\* connect_to_esp32, lines 71-74: the blocking TCP connect returns.
\* ok = FALSE: it raises (refused, unreachable, timed out).
connect_to_esp32_connect(ok) ==
    /\ cpc = "connecting"
    /\ IF ok
       THEN /\ sock' = "conn"
            /\ connected' = TRUE
            /\ running' = TRUE
            /\ emitted' = <<CC("connect", TRUE)>>
            /\ uiConnected' = TRUE
            /\ drops' = 0
            /\ dropNotes' = 0
            /\ cpc' = "welcome"
            /\ UNCHANGED <<lastCall, cargs, pending, is_on>>
       ELSE /\ ConnectExcept("tcp")
            /\ UNCHANGED <<sock, flagVars, drops>>
    /\ wire' = <<>>
    /\ rx' = <<>>
    /\ UNCHANGED <<addrVars, workerVars, countVars>>

\* QThread.start(): starts run() unless the thread is still running
Start(w) == IF w = "off" THEN "check" ELSE w

\* connect_to_esp32, lines 77-82: the welcome recv returns welcome (an
\* empty welcome is the read of a closed connection), the text is reported,
\* the thread is started, True is returned.
\* ok = FALSE: recv or decode raises (timeout after 5, reset, bad bytes).
connect_to_esp32_welcome(welcome, ok) ==
    /\ cpc = "welcome"
    /\ IF ok
       THEN /\ sock = "peerclosed" => welcome = <<>>
            /\ sock' = IF welcome = <<>> THEN "peerclosed" ELSE sock
            /\ rx' = welcome
            /\ EmitDirect(<<Msg("connect", "Connected", welcome)>>)
            /\ wpc' = Start(wpc)
            /\ lastCall' = Called("connect", TRUE, "ok")
            /\ cargs' = <<>>
            /\ cpc' = "idle"
       ELSE /\ ConnectExcept("welcome")
            /\ rx' = <<>>
            /\ UNCHANGED <<sock, wpc>>
    /\ wire' = <<>>
    /\ UNCHANGED <<flagVars, addrVars, wsock, wdata, wres, countVars, drops>>

\* disconnect(), lines 89-98
disconnect ==
    /\ cpc = "idle"
    /\ nOps < MaxOps
    /\ nOps' = nOps + 1
    /\ running' = FALSE
    /\ connected' = FALSE
    /\ sock' = IF sock # "none" THEN "closed" ELSE sock
    /\ EmitDirect(<<CC("disconnect", FALSE), Msg("disconnect", "Disconnected", <<>>)>>)
    /\ lastCall' = Called("disconnect", FALSE, "none")
    /\ drops' = IF connected THEN drops + 1 ELSE drops
    /\ wire' = <<>>
    /\ rx' = <<>>
    /\ UNCHANGED <<addrVars, cpc, cargs, workerVars, nRecv>>

\* SendRefused without the test of self.connected
SendRefused_SocketOnly == sock = "none"

\* send_command, line 101: the test that makes it return False at once
SendRefused == ~connected \/ sock = "none"

\* SendOk writing the command without the line terminator
SendOk_NoNewline(command) ==
    /\ sock \in {"conn", "peerclosed"}
    /\ wire' = command
    /\ EmitDirect(<<Msg("send", "Sent", command)>>)
    /\ lastCall' = Called("send", TRUE, "ok")
    /\ UNCHANGED <<connected, drops>>

\* send_command, lines 105-107: the line is written, reported, True returned
SendOk(command) ==
    /\ sock \in {"conn", "peerclosed"}
    /\ wire' = command \o <<NL>>
    /\ EmitDirect(<<Msg("send", "Sent", command)>>)
    /\ lastCall' = Called("send", TRUE, "ok")
    /\ UNCHANGED <<connected, drops>>

\* SendExcept without the assignment of line 110
SendExcept_StaysConnected ==
    /\ EmitDirect(<<Msg("send", "Send error", <<>>), CC("send", FALSE)>>)
    /\ lastCall' = Called("send", FALSE, "fail")
    /\ wire' = <<>>
    /\ UNCHANGED <<connected, drops>>

\* send_command, lines 108-112: socket.send raised
SendExcept ==
    /\ EmitDirect(<<Msg("send", "Send error", <<>>), CC("send", FALSE)>>)
    /\ connected' = FALSE
    /\ drops' = IF connected THEN drops + 1 ELSE drops
    /\ lastCall' = Called("send", FALSE, "fail")
    /\ wire' = <<>>

\* send_command(command), lines 100-112.  ok = FALSE: socket.send raises.
send_command(command, ok) ==
    /\ cpc = "idle"
    /\ nOps < MaxOps
    /\ nOps' = nOps + 1
    /\ IF SendRefused
       THEN /\ lastCall' = Called("send", FALSE, "none")
            /\ wire' = <<>>
            /\ EmitNothing
            /\ UNCHANGED <<connected, drops>>
       ELSE IF ok THEN SendOk(command) ELSE SendExcept
    /\ rx' = <<>>
    /\ UNCHANGED <<sock, running, addrVars, cpc, cargs, workerVars, nRecv>>

\* the GUI event loop delivers the oldest queued emission to its slot
deliver ==
    /\ cpc = "idle"
    /\ pending # <<>>
    /\ LET ui == Slot([conn |-> uiConnected, lights |-> is_on], Head(pending)) IN
       /\ uiConnected' = ui.conn
       /\ is_on' = ui.lights
    /\ pending' = Tail(pending)
    /\ emitted' = <<>>
    /\ wire' = <<>>
    /\ rx' = <<>>
    /\ UNCHANGED <<sock, flagVars, addrVars, cpc, cargs, workerVars, lastCall,
                   countVars, drops, dropNotes>>

\* ----------------------------------------------------- the worker thread
\* what every step of run() leaves alone
WorkerFrame ==
    /\ wire' = <<>>
    /\ UNCHANGED <<running, addrVars, cpc, cargs, lastCall, nOps>>

\* run(), line 116: the loop condition
run_while ==
    /\ wpc = "check"
    /\ wpc' = IF running /\ connected THEN "recv" ELSE "exit"
    /\ EmitNothing
    /\ rx' = <<>>
    /\ WorkerFrame
    /\ UNCHANGED <<sock, connected, wsock, wdata, wres, nRecv, drops>>

\* run(), lines 118-120: read self.socket, set the poll timeout, call recv.
\* settimeout raises on a closed socket, recv on one that is not connected.
run_recv_call ==
    /\ wpc = "recv"
    /\ IF sock = "none"
       THEN /\ wpc' = "check"
            /\ UNCHANGED <<wsock, wres>>
       ELSE IF sock \in {"closed", "fresh"}
       THEN /\ wpc' = "except"
            /\ wres' = "error"
            /\ UNCHANGED wsock
       ELSE /\ wpc' = "blocked"
            /\ wres' = "none"
            /\ wsock' = "self"
    /\ EmitNothing
    /\ rx' = <<>>
    /\ WorkerFrame
    /\ UNCHANGED <<sock, connected, wdata, nRecv, drops>>

\* RecvOutcomes for a recv without the poll timeout of line 119: a recv
\* blocked on a socket that is closed under it never returns
RecvOutcomes_NoTimeout(c) ==
    IF c = "conn" THEN {"data", "eof", "error"}
    ELSE IF c = "peerclosed" THEN {"eof", "error"}
    ELSE {}

\* what a recv that blocks on a socket in condition c can return with;
\* a socket closed under a blocked recv ends it by timeout or by error
RecvOutcomes(c) ==
    IF c = "conn" THEN {"data", "timeout", "eof", "error"}
    ELSE IF c = "peerclosed" THEN {"eof", "error"}
    ELSE {"timeout", "error"}

\* AfterRecv with socket.timeout caught by the general handler
AfterRecv_TimeoutIsError(out) ==
    IF out = "data" THEN "emit"
    ELSE IF out \in {"error", "timeout"} THEN "except"
    ELSE "check"

\* run(), lines 121-125, for a recv that ended with out: where the loop
\* goes next.  A non-empty chunk is processed; for the empty read of a
\* closed connection "if data" is false and the loop goes round again; a
\* timeout continues; any other exception enters the handler.
AfterRecv(out) ==
    IF out = "data" THEN "emit"
    ELSE IF out = "error" THEN "except"
    ELSE "check"

\* run(), line 120: the blocked recv returns or raises
run_recv_return(out, chunk) ==
    /\ wpc = "blocked"
    /\ out \in RecvOutcomes(IF wsock = "self" THEN sock ELSE wsock)
    /\ out = "data" => nRecv < MaxRecv
    /\ nRecv' = IF out = "data" THEN nRecv + 1 ELSE nRecv
    /\ wdata' = IF out = "data" THEN chunk ELSE IF out = "eof" THEN <<>> ELSE wdata
    /\ rx' = IF out = "data" THEN chunk ELSE <<>>
    /\ sock' = IF out = "eof" /\ wsock = "self" THEN "peerclosed" ELSE sock
    /\ wres' = out
    /\ wpc' = AfterRecv(out)
    /\ wsock' = "none"
    /\ EmitNothing
    /\ WorkerFrame
    /\ UNCHANGED <<connected, drops>>

\* run(), line 122
run_emit_received ==
    /\ wpc = "emit"
    /\ EmitQueued(<<Msg("run", "Received", Strip(wdata))>>)
    /\ wpc' = "parse"
    /\ rx' = <<>>
    /\ WorkerFrame
    /\ UNCHANGED <<sock, connected, wsock, wdata, wres, nRecv, drops>>

\* run_parse emitting the states of the chunk from its last line to its first
run_parse_LastLineFirst ==
    /\ wpc = "parse"
    /\ LET sts == parse_status_response(wdata) IN
       EmitQueued([i \in 1..Len(sts) |->
                      SU("run", sts[Len(sts) + 1 - i].light, sts[Len(sts) + 1 - i].isOn)])
    /\ wdata' = <<>>
    /\ wpc' = "check"
    /\ rx' = <<>>
    /\ WorkerFrame
    /\ UNCHANGED <<sock, connected, wsock, wres, nRecv, drops>>

\* run(), line 123: parse_status_response(data) emits status_updated;
\* data is not read again before the next recv assigns it
run_parse ==
    /\ wpc = "parse"
    /\ LET sts == IF wdata \in Chunks
                  THEN (CHOOSE p \in ChunkStatus : p[1] = wdata)[2]
                  ELSE parse_status_response(wdata) IN
       EmitQueued([i \in 1..Len(sts) |-> SU("run", sts[i].light, sts[i].isOn)])
    /\ wdata' = <<>>
    /\ wpc' = "check"
    /\ rx' = <<>>
    /\ WorkerFrame
    /\ UNCHANGED <<sock, connected, wsock, wres, nRecv, drops>>

\* run_except without the test of self.running of line 127
run_except_IgnoresRunning ==
    /\ wpc = "except"
    /\ wpc' = "except_msg"
    /\ EmitNothing
    /\ rx' = <<>>
    /\ WorkerFrame
    /\ UNCHANGED <<sock, connected, wsock, wdata, wres, nRecv, drops>>

\* run(), lines 126-127 and 131: the handler tests self.running
run_except ==
    /\ wpc = "except"
    /\ wpc' = IF running THEN "except_msg" ELSE "exit"
    /\ EmitNothing
    /\ rx' = <<>>
    /\ WorkerFrame
    /\ UNCHANGED <<sock, connected, wsock, wdata, wres, nRecv, drops>>

\* run(), line 128
run_except_msg ==
    /\ wpc = "except_msg"
    /\ EmitQueued(<<Msg("run", "Receive error", <<>>)>>)
    /\ wpc' = "except_set"
    /\ rx' = <<>>
    /\ WorkerFrame
    /\ UNCHANGED <<sock, connected, wsock, wdata, wres, nRecv, drops>>

\* run_except_set assigning True where line 129 assigns False
run_except_set_Reconnects ==
    /\ wpc = "except_set"
    /\ connected' = TRUE
    /\ drops' = drops
    /\ wpc' = "except_cc"
    /\ EmitNothing
    /\ rx' = <<>>
    /\ WorkerFrame
    /\ UNCHANGED <<sock, wsock, wdata, wres, nRecv>>

\* run(), line 129
run_except_set ==
    /\ wpc = "except_set"
    /\ connected' = FALSE
    /\ drops' = IF connected THEN drops + 1 ELSE drops
    /\ wpc' = "except_cc"
    /\ EmitNothing
    /\ rx' = <<>>
    /\ WorkerFrame
    /\ UNCHANGED <<sock, wsock, wdata, wres, nRecv>>

\* run(), lines 130-131
run_except_cc ==
    /\ wpc = "except_cc"
    /\ EmitQueued(<<CC("run", FALSE)>>)
    /\ wpc' = "exit"
    /\ rx' = <<>>
    /\ WorkerFrame
    /\ UNCHANGED <<sock, connected, wsock, wdata, wres, nRecv, drops>>

\* run() returns and the thread finishes; until then start() does nothing
run_return ==
    /\ wpc = "exit"
    /\ wpc' = "off"
    /\ EmitNothing
    /\ rx' = <<>>
    /\ WorkerFrame
    /\ UNCHANGED <<sock, connected, wsock, wdata, wres, nRecv, drops>>

\* ------------------------------------------------------------------ Spec
Next ==
    \/ \E ep \in Endpoints, ok \in BOOLEAN : connect_to_esp32_socket(ep, ok)
    \/ \E ok \in BOOLEAN : connect_to_esp32_connect(ok)
    \/ \E w \in Welcomes, ok \in BOOLEAN : connect_to_esp32_welcome(w, ok)
    \/ disconnect
    \/ \E c \in Commands, ok \in BOOLEAN : send_command(c, ok)
    \/ deliver
    \/ run_while
    \/ run_recv_call
    \/ \E out \in {"data", "timeout", "eof", "error"}, d \in Chunks : run_recv_return(out, d)
    \/ run_emit_received
    \/ run_parse
    \/ run_except
    \/ run_except_msg
    \/ run_except_set
    \/ run_except_cc
    \/ run_return

Spec == Init /\ [][Next]_vars

\* one step of run(): the statement the worker is at
WorkerNext ==
    \/ run_while
    \/ run_recv_call
    \/ \E out \in {"data", "timeout", "eof", "error"}, d \in Chunks : run_recv_return(out, d)
    \/ run_emit_received
    \/ run_parse
    \/ run_except
    \/ run_except_msg
    \/ run_except_set
    \/ run_except_cc
    \/ run_return

\* The worker thread is scheduled fairly: the statement of run() it is at
\* eventually executes, and a recv with its timeout of 1.0 returns.
WorkerFairness == WF_vars(WorkerNext)

FairSpec == Init /\ [][Next]_vars /\ WorkerFairness

\* The handling of one received chunk: a connected session whose recv has
\* just returned a chunk of DeviceChunks; run() reports and parses it and
\* the window processes the emissions.
ParseInit ==
    /\ \E ep \in Endpoints : host = ep[1] /\ port = ep[2]
    /\ sock = "conn"
    /\ connected = TRUE
    /\ running = TRUE
    /\ cpc = "idle"
    /\ wpc = "emit"
    /\ wsock = "none"
    /\ wdata \in DeviceChunks
    /\ wres = "data"
    /\ cargs = <<>>
    /\ emitted = <<>>
    /\ wire = <<>>
    /\ rx = wdata
    /\ pending = <<>>
    /\ uiConnected = TRUE
    /\ is_on = [l \in lights_config |-> FALSE]
    /\ lastCall = [op |-> "connect", ret |-> TRUE, io |-> "ok", prev |-> <<"none", FALSE>>]
    /\ nOps = 1
    /\ nRecv = 1
    /\ drops = 0
    /\ dropNotes = 0

ParseNext ==
    \/ run_emit_received
    \/ run_parse
    \/ deliver

ParseSpec == ParseInit /\ [][ParseNext]_vars

\* The caller thread alone, sending every command line the window can
\* produce: the buttons of the light widgets, "All ON", "All OFF", refresh.
WindowNext ==
    \/ \E ep \in Endpoints, ok \in BOOLEAN : connect_to_esp32_socket(ep, ok)
    \/ \E ok \in BOOLEAN : connect_to_esp32_connect(ok)
    \/ \E w \in Welcomes, ok \in BOOLEAN : connect_to_esp32_welcome(w, ok)
    \/ disconnect
    \/ \E c \in WindowCommands, ok \in BOOLEAN : send_command(c, ok)

WindowSpec == Init /\ [][WindowNext]_vars

\* ---------------------------------------------------------------- claims
\* the receive loop is going round (not in its exception handler, not
\* ended): one of lines 116-125 is the worker's position
LoopActive == wpc \in {"check", "recv", "blocked", "emit", "parse"}

\* the exception handler of run() is under way
LoopTeardown == wpc \in {"except", "except_msg", "except_set", "except_cc"}

\* the step is a whole call of disconnect / of send_command
IsDisconnect == nOps' = nOps + 1 /\ cpc' = "idle" /\ lastCall'.op = "disconnect"
IsSend == nOps' = nOps + 1 /\ cpc' = "idle" /\ lastCall'.op = "send"

\* C1: after connect_to_esp32 has failed (at socket creation, at the TCP
\* connect or at the welcome read), self.connected is False and no receive
\* loop is running.
C1_FailedConnectIsDisconnected ==
    (cpc = "idle" /\ lastCall.op = "connect" /\ ~lastCall.ret)
        => (~connected /\ ~LoopActive)

\* C2: when no teardown is under way (no call on the caller thread, the
\* loop not in its handler), connected implies that the socket is open and
\* that the receive loop is going round.
C2_ConnectedHasSocketAndLoop ==
    (cpc = "idle" /\ ~LoopTeardown /\ connected)
        => (sock \in {"conn", "peerclosed"} /\ LoopActive)

\* C3: a disconnect() that directly follows a disconnect() changes no state
\* of the session and emits nothing.
C3_SecondDisconnectIsNoOp ==
    [][(lastCall.op = "disconnect" /\ IsDisconnect)
        => (emitted' = <<>> /\ UNCHANGED <<sock, connected, running>>)]_vars

\* C4: once a disconnect() that followed a successful connect has returned
\* (and until the next call), the receive loop makes no emission.
C4_LoopSilentAfterDisconnect ==
    [][(lastCall.op = "disconnect" /\ lastCall.prev = <<"connect", TRUE>>)
        => Len(pending') <= Len(pending)]_vars

\* C5: a recv of the loop that returns the empty read of a closed connection
\* while self.running is set enters the handler that marks the session
\* Disconnected, emits connection_changed(False) and leaves the loop.
C5_PeerCloseEndsSession ==
    [][(wpc = "blocked" /\ wpc' # "blocked" /\ wres' = "eof" /\ running)
        => wpc' \in {"except", "except_msg"}]_vars

\* C6: send_command on a session that is not connected returns False,
\* writes nothing to the socket, emits nothing and leaves connected,
\* running and the socket as they were.
C6_SendWhenNotConnected ==
    [][(IsSend /\ ~connected)
        => /\ ~lastCall'.ret
           /\ wire' = <<>>
           /\ emitted' = <<>>
           /\ UNCHANGED <<sock, connected, running, pending, uiVars>>]_vars

\* a send_command refused right after the disconnect() of a session that
\* had been connected
C6_Witness ==
    /\ lastCall.op = "send" /\ lastCall.io = "none" /\ ~lastCall.ret
    /\ lastCall.prev = <<"disconnect", FALSE>>
    /\ drops = 1
    /\ sock = "closed"
    /\ emitted = <<>>
    /\ wire = <<>>

\* C7: send_command on a connected session whose write fails leaves the
\* session not connected, emits the error message and then
\* connection_changed(False) and nothing else (no "Sent"), and returns False.
C7_SendFailureDisconnects ==
    [][(IsSend /\ connected /\ lastCall'.io = "fail")
        => /\ ~connected'
           /\ ~lastCall'.ret
           /\ emitted' = <<Msg("send", "Send error", <<>>), CC("send", FALSE)>>
           /\ wire' = <<>>]_vars

\* the first send_command after a successful connect has just failed
C7_Witness ==
    /\ lastCall.op = "send" /\ lastCall.io = "fail" /\ ~lastCall.ret
    /\ lastCall.prev = <<"connect", TRUE>>
    /\ ~connected
    /\ drops = 1
    /\ emitted = <<Msg("send", "Send error", <<>>), CC("send", FALSE)>>

\* C8: once the connection of a session has dropped and no handler is
\* between marking it and notifying, exactly one connection_changed(False)
\* has been emitted for it by disconnect, send_command and run together.
C8_DropSurfacedOnce ==
    (drops >= 1 /\ wpc # "except_cc") => dropNotes = 1

\* C9: connected only becomes True, and a socket is only opened, in a step
\* of a connect_to_esp32 call; no step of run() or send_command does either.
C9_NoAutoReconnect ==
    [][((~connected /\ connected') \/ (sock' # sock /\ sock' \in {"fresh", "conn"}))
        => \/ (cpc = "idle" /\ cpc' = "connecting" /\ nOps' = nOps + 1)
           \/ (cpc = "connecting" /\ cpc' = "welcome")]_vars

\* a session dropped by a read error: the loop has ended, a send_command
\* has since been refused, and the session is still not connected
C9_Witness ==
    /\ ~connected
    /\ drops = 1
    /\ dropNotes = 1
    /\ wres = "error"
    /\ wpc = "off"
    /\ lastCall.op = "send" /\ lastCall.io = "none"
    /\ lastCall.prev = <<"connect", TRUE>>

\* C10: the step in which connect_to_esp32 returns True leaves the session
\* connected with the call's host and port recorded, emits the message
\* carrying the welcome text just read, and leaves a receive loop running;
\* connection_changed(True) was emitted when the TCP connect succeeded.
C10_SuccessfulConnect ==
    /\ [][(cpc = "welcome" /\ cpc' = "idle" /\ lastCall'.ret)
            => /\ connected'
               /\ <<host', port'>> = cargs
               /\ emitted' = <<Msg("connect", "Connected", rx')>>
               /\ LoopActive']_vars
    /\ [][(cpc = "connecting" /\ cpc' = "welcome")
            => emitted' = <<CC("connect", TRUE)>>]_vars

\* a connect_to_esp32 call returns False in this step
ConnectFails ==
    /\ cpc' = "idle"
    /\ cpc # "idle" \/ nOps' = nOps + 1
    /\ lastCall'.op = "connect"
    /\ ~lastCall'.ret

\* C11: a connect attempt that fails goes from Connecting straight back to
\* Disconnected: the failing call has not emitted connection_changed(True)
\* (which it does on entering its welcome stage), and it returns with
\* connected False.
C11_FailedConnectNeverConnected ==
    [][ConnectFails => (cpc # "welcome" /\ ~connected')]_vars

\* C12: once the session is Disconnected, no call is under way and the
\* window has processed every notification, every light widget is off.
C12_LightsResetOnDisconnect ==
    (cpc = "idle" /\ ~connected /\ ~uiConnected /\ pending = <<>> /\ wpc = "off")
        => \A l \in lights_config : ~is_on[l]

\* C13: notifications reach the slots in the order of their emission: no
\* emission of the caller thread reaches its slot while an earlier emission
\* of the receive loop is still waiting for its slot.
C13_DeliveryInEmissionOrder ==
    [][(emitted' # <<>> /\ emitted'[1].src # "run") => pending = <<>>]_vars

\* C14: a send_command that succeeds on a connected session writes the
\* command line followed by one newline, returns True, emits the one
\* message carrying that line, and changes neither the connection status
\* nor the light states.
C14_SuccessfulSend ==
    [][(IsSend /\ connected /\ lastCall'.io = "ok")
        => /\ lastCall'.ret
           /\ \E c \in Commands :
                /\ wire' = c \o <<NL>>
                /\ emitted' = <<Msg("send", "Sent", c)>>
           /\ Len(SelectSeq(wire', LAMBDA ch : ch = NL)) = 1
           /\ UNCHANGED <<connected, running, sock, uiVars, pending>>]_vars

\* a STATUS request has just been written to a connected session
C14_Witness ==
    /\ lastCall.op = "send" /\ lastCall.ret /\ lastCall.io = "ok"
    /\ lastCall.prev = <<"connect", TRUE>>
    /\ connected
    /\ wire = <<"S", "T", "A", "T", "U", "S", NL>>
    /\ Len(emitted) = 1

\* C19: a recv of the loop that raises anything but a timeout enters the
\* handler.  With self.running set the handler emits the error message,
\* marks the session not connected, emits connection_changed(False) and
\* leaves the loop; with self.running cleared it leaves the loop at once,
\* emitting nothing and changing nothing of the session.
C19_ReadErrorHandling ==
    [][/\ (wpc \in {"recv", "blocked"} /\ wpc' # wpc /\ wres' = "error")
            => wpc' = "except"
       /\ (wpc = "blocked" /\ wpc' # wpc /\ wres' = "timeout")
            => (wpc' = "check" /\ emitted' = <<>> /\ connected' = connected)
       /\ (wpc = "except" /\ wpc' # wpc /\ running)
            => wpc' = "except_msg"
       /\ (wpc = "except_msg" /\ wpc' # wpc)
            => (emitted' = <<Msg("run", "Receive error", <<>>)>> /\ wpc' = "except_set")
       /\ (wpc = "except_set" /\ wpc' # wpc)
            => (~connected' /\ wpc' = "except_cc")
       /\ (wpc = "except_cc" /\ wpc' # wpc)
            => (emitted' = <<CC("run", FALSE)>> /\ wpc' = "exit")
       /\ (wpc = "except" /\ wpc' # wpc /\ ~running)
            => /\ wpc' = "exit"
               /\ emitted' = <<>>
               /\ UNCHANGED <<sock, connected, running, pending, uiVars>>]_vars

\* the loop has left through its handler after a read error on a running
\* session: the session is marked not connected and the notification made
C19_Witness ==
    /\ wpc = "exit"
    /\ wres = "error"
    /\ running
    /\ ~connected
    /\ drops = 1
    /\ emitted = <<CC("run", FALSE)>>

\* the six wire lines of the protocol
WireVerbs == { <<"O", "N">>, <<"O", "F", "F">>, <<"T", "O", "G", "G", "L", "E">> }
WireLine(line) ==
    \/ line \in { <<"A", "L", "L", "_", "O", "N">>,
                  <<"A", "L", "L", "_", "O", "F", "F">>,
                  <<"S", "T", "A", "T", "U", "S">> }
    \/ \E verb \in WireVerbs, id \in lights_config : line = verb \o <<" ">> \o id

\* C18: whatever a send_command of the window writes to the socket is one of
\* the six wire lines (ON <id>, OFF <id>, TOGGLE <id>, ALL_ON, ALL_OFF,
\* STATUS, with <id> a light of the window) followed by the terminator, and
\* the line holds no newline.
C18_CommandEncoding ==
    [][wire' # <<>>
        => LET line == SubSeq(wire', 1, Len(wire') - 1) IN
           /\ wire'[Len(wire')] = NL
           /\ WireLine(line)
           /\ ~Contains(line, <<NL>>)]_vars

\* the TOGGLE button of light4 has just been sent
C18_Witness ==
    /\ lastCall.op = "send" /\ lastCall.ret
    /\ wire = <<"T", "O", "G", "G", "L", "E", " ", "l", "i", "g", "h", "t", "4", NL>>
    /\ emitted = <<Msg("send", "Sent", widget_command(<<"T", "O", "G", "G", "L", "E">>, light4))>>

ParseStep == wpc = "parse" /\ wpc' = "check"

\* the status_updated emissions for a sequence of decoded states
StatusEmissions(sts) == [i \in 1..Len(sts) |-> SU("run", sts[i].light, sts[i].isOn)]

\* the lines of a chunk
ChunkLines(data) == Split(Strip(data), NL)

\* the text of a line after its first ':'
ValuePortion(line) == SubSeq(line, IndexFrom(line, ":", 1) + 1, Len(line))

\* a status line: it has a ':' and ON or OFF somewhere after it
IsStatusLine(line) ==
    /\ IndexFrom(line, ":", 1) # 0
    /\ Contains(ValuePortion(line), TokOn) \/ Contains(ValuePortion(line), TokOff)

\* C15: parsing a chunk emits one light state for each of its lines that
\* has a ':' with ON or OFF after it, and nothing for any other line.
C15_StatusLineIffValueHasToken ==
    [][ParseStep =>
        LET lines == ChunkLines(wdata) IN
        Len(emitted') = Cardinality({i \in 1..Len(lines) : IsStatusLine(lines[i])})]_vars

\* the field before the first ':' of a line, and the field after it: the
\* text up to the next ':' or to the end of the line
FieldBefore(line) == SubSeq(line, 1, IndexFrom(line, ":", 1) - 1)
FieldAfter(line) ==
    LET j == IndexFrom(ValuePortion(line), ":", 1) IN
    IF j = 0 THEN ValuePortion(line) ELSE SubSeq(ValuePortion(line), 1, j - 1)

\* the light id and the state a line stands for
LineState(line) ==
    LET field == Strip(FieldBefore(line))
        k == IndexFrom(field, "(", 1)
    IN [light |-> IF k = 0 THEN field ELSE Strip(SubSeq(field, 1, k - 1)),
        isOn |-> Contains(Strip(FieldAfter(line)), TokOn)]

RECURSIVE TerminatedLines(_)
TerminatedLines(data) ==
    LET i == IndexFrom(data, NL, 1) IN
    IF i = 0 THEN <<>>
    ELSE <<SubSeq(data, 1, i - 1)>> \o TerminatedLines(SubSeq(data, i + 1, Len(data)))

\* C17: a chunk is parsed on its own, and only its terminated lines yield a
\* light state: the text after the last newline of the chunk, a line whose
\* rest has not been read yet, yields none.
C17_PartialLineNotYielded ==
    [][ParseStep =>
        emitted' = StatusEmissions(ParseLines(TerminatedLines(wdata)))]_vars

\* C23: a recv of the loop that times out emits nothing, leaves the
\* connection status, the running flag, the socket and the light states as
\* they were, and takes the loop back to its condition for the next
\* iteration.
C23_TimeoutIsNotAnError ==
    [][(wpc = "blocked" /\ wpc' # wpc /\ wres' = "timeout")
        => /\ wpc' = "check"
           /\ emitted' = <<>>
           /\ UNCHANGED <<sock, connected, running, pending, uiVars, drops, dropNotes>>]_vars

\* after a timeout the loop of a connected session has passed its condition
\* again and is about to call recv
C23_Witness ==
    /\ wres = "timeout"
    /\ wpc = "recv"
    /\ connected /\ running
    /\ sock = "conn"
    /\ drops = 0 /\ dropNotes = 0

\* an emission of the handler of run(): the error message or
\* connection_changed(False)
HandlerEmission(n) ==
    /\ n.src = "run"
    /\ n.kind = "Receive error" \/ (n.sig = "connection_changed" /\ ~n.flag)

\* C24: between the success of the TCP connect of a connect_to_esp32 call
\* and its return, where thread.start() is, a receive loop that is still
\* alive is the loop of the earlier session: no step taken in that window
\* marks the new session not connected or makes an emission of the
\* handler of run().
C24_StaleLoopLeavesNewSession ==
    [][cpc = "welcome"
        => /\ connected'
           /\ \A i \in 1..Len(emitted') : ~HandlerEmission(emitted'[i])]_vars

\* C25: when no call is under way, no emission waits for its slot and the
\* loop is not inside its handler, what the window last showed for the
\* connection equals self.connected.
C25_DisplayedStatusMatchesFlag ==
    (cpc = "idle" /\ pending = <<>> /\ ~LoopTeardown) => (uiConnected = connected)

\* the step hands the oldest queued emission to its slot
IsDelivery == pending # <<>> /\ pending' = Tail(pending)

\* C22: the table of light states has exactly one entry for each of
\* builtin, light1, light2, light3, light4.  An entry changes only when a
\* status_updated emission of the receive loop that names that light is
\* delivered, or in disconnect; no step of connect_to_esp32 or send_command
\* changes an entry (no optimistic update), and the delivery of a status
\* that names no known light changes none.
C22_LightTableFrame ==
    /\ [](DOMAIN is_on = {builtin, light1, light2, light3, light4})
    /\ [][\A l \in DOMAIN is_on :
             (is_on'[l] # is_on[l])
               => (\/ /\ IsDelivery
                      /\ Head(pending).sig = "status_updated"
                      /\ Head(pending).src = "run"
                      /\ Head(pending).text = l
                      /\ is_on'[l] = Head(pending).flag
                   \/ IsDisconnect)]_vars
    /\ [][(cpc' # cpc \/ cpc # "idle" \/ IsSend) => (is_on' = is_on)]_vars
    /\ [][(IsDelivery /\ Head(pending).text \notin DOMAIN is_on) => (is_on' = is_on)]_vars

\* "ON light1" has just been sent with success while light1 is stored as
\* off, and the status "fan: ON" decoded by the loop is next to be
\* delivered
C22_Witness ==
    /\ lastCall.op = "send" /\ lastCall.ret
    /\ wire = <<"O", "N", " ">> \o light1 \o <<NL>>
    /\ ~is_on[light1]
    /\ pending # <<>>
    /\ Head(pending) = SU("run", <<"f", "a", "n">>, TRUE)

\* the lines of a chunk that parse_status_response decodes, in their order
DecodedLines(data) == SelectSeq(ChunkLines(data), LAMBDA l : ParseLine(l) # <<>>)

\* the light id and the state of each decoded line of a chunk
DecodedStates(data) ==
    LET dl == DecodedLines(data) IN [i \in 1..Len(dl) |-> LineState(dl[i])]

\* the table of light states after a chunk with the decoded states st: a
\* light named by a decoded line has the state of the last such line, any
\* other light keeps its state
TableAfterChunk(table, st) ==
    LET naming(l) == {i \in 1..Len(st) : st[i].light = l}
    IN [l \in DOMAIN table |->
           IF naming(l) = {} THEN table[l]
           ELSE st[CHOOSE i \in naming(l) : \A j \in naming(l) : j <= i].isOn]

\* The handling of a chunk whose message reports text: the loop first
\* queues one "Received" message and nothing else, then one status_updated
\* for each decoded line, in line order, behind it; the window's table
\* changes only as the slot of the oldest queued emission changes it; and
\* once the queue left by the parse step is drained in order the table is
\* TableAfterChunk.
ChunkHandling(text, data) ==
    /\ (wpc = "emit" /\ wpc' # wpc)
         => /\ wpc' = "parse"
            /\ emitted' = <<Msg("run", "Received", text)>>
            /\ pending' = pending \o emitted'
    /\ ParseStep
         => LET st == DecodedStates(data) IN
            /\ emitted' = StatusEmissions(st)
            /\ pending' = pending \o emitted'
            /\ SlotAll([conn |-> uiConnected, lights |-> is_on], pending').lights
                   = TableAfterChunk(is_on, st)
    /\ (is_on' # is_on)
         => /\ IsDelivery
            /\ is_on' = Slot([conn |-> uiConnected, lights |-> is_on], Head(pending)).lights

\* C21 as the spec states it: for each non-empty chunk the loop emits one
\* message carrying the raw text of the chunk, then one light state for
\* each decoded status line in line order, and after the chunk is processed
\* every light it names has the state of its last status line while the
\* other lights are unchanged.
C21_RawTextThenStates == [][ChunkHandling(wdata, wdata)]_vars

\* C21, amended: for each non-empty chunk the loop emits one message
\* carrying the text of the chunk without its leading and trailing
\* whitespace (the final newline included), then one light state for each
\* decoded status line in line order, and after the chunk is processed
\* every light it names has the state of its last status line while the
\* other lights are unchanged.
C21_TrimmedTextThenStates == [][ChunkHandling(Strip(wdata), wdata)]_vars

\* a chunk with "light1: ON" and then "light1:OFF " has been reported and
\* parsed; the first state is stored and the second is the last emission
\* still queued
C21_Witness ==
    /\ wpc = "check"
    /\ is_on[light1]
    /\ pending = <<SU("run", light1, FALSE)>>
    /\ \A l \in lights_config \ {light1} : ~is_on[l]

=============================================================================
